---- MODULE Spec2Model ----
(***************************************************************************)
(* cxx::array_ref<T> and cxx::array_iterator<T*> (src/ArrayRef.h).         *)
(*                                                                         *)
(* Addresses are integers counted in elements: Null is the null pointer,   *)
(* the backing storage holds ArrLen elements at ArrAddr .. ArrAddr+ArrLen-1 *)
(* and ArrAddr+ArrLen is its one-past-the-end address.  An element is      *)
(* identified by its address.  Every call returns either a value (a record *)
(* with ok = TRUE) or Failed, the outcome of a failing assert(), which     *)
(* aborts the program.  Element types are records (class, const or not);  *)
(* the enable_if conditions of the converting constructors are predicates  *)
(* over them, and an instantiation is accepted or rejected, never run.     *)
(***************************************************************************)
EXTENDS Integers, FiniteSets

\* The names of the record fields used in this module.  TLC orders the fields
\* of a record by the first occurrence of their names, so with this list first
\* every record below, written with its fields in alphabetical order, is in
\* TLC's normal form as written.
FieldNames ==
  [a : {}, addr : {}, arr : {}, b : {}, data : {}, deep : {}, diff : {},
   elem : {}, empty : {}, eq : {}, first : {}, from : {}, ge : {}, gt : {},
   i : {}, is_const : {}, k : {}, le : {}, len : {}, lst : {}, lt : {},
   lt_rev : {}, n : {}, ne : {}, ok : {}, op : {}, p : {}, pos : {}, ptr : {},
   r : {}, ret : {}, rhs : {}, s : {}, self : {}, size : {}, source : {},
   temporary : {}, to : {}, type : {}, v : {}, val : {}]

\* view: the array_ref object; v0: the array_ref object a constructor built,
\* of which view is a sub-range; it: the array_iterator object; made: the
\* ptr_ and size_ the constructor of `it` set; last: the last call, its
\* arguments and its outcome r; pc: "running", or "aborted" after a failed
\* assert().
VARIABLES view, v0, it, made, last, pc

vars == <<view, v0, it, made, last, pc>>

\* ------------------------------------------------------------------ bounds
\* Number of elements of the backing storage.
ArrLen == 3
\* How far below zero the counts, offsets and indices passed to the calls go.
NegArgs == 1

\* nullptr
Null == 0

ArrAddr == Null + 1
ArrEnd == ArrAddr + ArrLen

\* pointer arguments: null, every element, one past the end
Pointers == Null .. ArrEnd
\* difference_type arguments
Counts == (0 - NegArgs) .. (ArrLen + 1)

\* ------------------------------------------------------------------ values
\* The outcome of a call in which an assert() failed.
Failed == [ok |-> FALSE]

\* An array_ref object: data_, size_.  (Record fields are written in
\* alphabetical order throughout.)
View(d, s) == [data |-> d, ok |-> TRUE, size |-> s]

\* An array_iterator object: pos_, ptr_, size_.
Iter(p, i, s) == [ok |-> TRUE, pos |-> i, ptr |-> p, size |-> s]

\* A reference, a difference_type or a bool returned by a call.
Val(x) == [ok |-> TRUE, val |-> x]

\* ------------------------------------------------------- array_iterator
\* array_iterator() = default
array_iterator_default == Iter(Null, 0, 0)

\* array_iterator(array_iterator const&) = default
array_iterator_copy(i) ==
  IF ~i.ok THEN Failed ELSE Iter(i.ptr, i.pos, i.size)

\* (mutant) the converting constructor without its size_ initialiser
array_iterator_convert_nosize(i) ==
  IF ~i.ok THEN Failed ELSE Iter(i.ptr, i.pos, 0)

\* array_iterator(array_iterator<OtherPointerT> const&)
array_iterator_convert(i) ==
  IF ~i.ok THEN Failed ELSE Iter(i.ptr, i.pos, i.size)

\* (mutant) the constructor asserting that ptr is null iff size is 0
array_iterator_null_iff_empty(p, s, i) ==
  IF /\ (p = Null /\ s = 0) \/ (p # Null /\ s > 0)
     /\ i >= 0
     /\ i <= s
  THEN Iter(p, i, s)
  ELSE Failed

\* array_iterator(pointer ptr, difference_type size, difference_type pos = 0)
array_iterator(p, s, i) ==
  IF /\ (p = Null /\ s = 0) \/ (p # Null /\ s >= 0)
     /\ i >= 0
     /\ i <= s
  THEN Iter(p, i, s)
  ELSE Failed

\* ptr()
ptr(i) == i.ptr + i.pos

\* operator*
op_deref(i) ==
  IF ~i.ok THEN Failed
  ELSE IF i.ptr # Null /\ i.pos < i.size THEN Val(i.ptr + i.pos) ELSE Failed

\* operator->
op_arrow(i) ==
  IF ~i.ok THEN Failed
  ELSE IF i.ptr # Null /\ i.pos < i.size THEN Val(i.ptr + i.pos) ELSE Failed

\* operator++()
op_pre_inc(i) ==
  IF ~i.ok THEN Failed
  ELSE IF i.pos < i.size THEN [i EXCEPT !.pos = i.pos + 1] ELSE Failed

\* operator++(int): self is *this after the call, ret the returned copy
op_post_inc(i) ==
  IF ~i.ok THEN Failed
  ELSE LET t == array_iterator_copy(i)
           self == op_pre_inc(i)
       IN IF self.ok THEN [ok |-> TRUE, ret |-> t, self |-> self] ELSE Failed

\* operator--()
op_pre_dec(i) ==
  IF ~i.ok THEN Failed
  ELSE IF i.pos > 0 THEN [i EXCEPT !.pos = i.pos - 1] ELSE Failed

\* operator--(int)
op_post_dec(i) ==
  IF ~i.ok THEN Failed
  ELSE LET t == array_iterator_copy(i)
           self == op_pre_dec(i)
       IN IF self.ok THEN [ok |-> TRUE, ret |-> t, self |-> self] ELSE Failed

\* (mutant) operator+= without assert(pos_ + n >= 0)
op_add_assign_upper_only(i, n) ==
  IF ~i.ok THEN Failed
  ELSE IF i.pos + n <= i.size THEN [i EXCEPT !.pos = i.pos + n] ELSE Failed

\* operator+=(difference_type)
op_add_assign(i, n) ==
  IF ~i.ok THEN Failed
  ELSE IF i.pos + n >= 0 /\ i.pos + n <= i.size
       THEN [i EXCEPT !.pos = i.pos + n]
       ELSE Failed

\* operator+(difference_type)
op_plus(i, n) ==
  IF ~i.ok THEN Failed
  ELSE LET t == array_iterator_copy(i) IN op_add_assign(t, n)

\* operator+(difference_type, array_iterator)
op_plus_left(n, i) == op_plus(i, n)

\* operator-=(difference_type)
op_sub_assign(i, n) ==
  IF ~i.ok THEN Failed
  ELSE IF i.pos - n >= 0 /\ i.pos - n <= i.size
       THEN [i EXCEPT !.pos = i.pos - n]
       ELSE Failed

\* operator-(difference_type)
op_minus(i, n) ==
  IF ~i.ok THEN Failed
  ELSE LET t == array_iterator_copy(i) IN op_sub_assign(t, n)

\* (mutant) operator-(array_iterator) with its operands exchanged
op_diff_reversed(a, b) ==
  IF ~a.ok \/ ~b.ok THEN Failed
  ELSE IF a.ptr = b.ptr THEN Val(b.pos - a.pos) ELSE Failed

\* operator-(array_iterator)
op_diff(a, b) ==
  IF ~a.ok \/ ~b.ok THEN Failed
  ELSE IF a.ptr = b.ptr THEN Val(a.pos - b.pos) ELSE Failed

\* (mutant) operator[] with assert(pos_ + index <= size_)
op_index_end_inclusive(i, n) ==
  IF ~i.ok THEN Failed
  ELSE IF i.ptr # Null /\ i.pos + n >= 0 /\ i.pos + n <= i.size
       THEN Val(i.ptr + (i.pos + n))
       ELSE Failed

\* operator[](difference_type)
op_index(i, n) ==
  IF ~i.ok THEN Failed
  ELSE IF i.ptr # Null /\ i.pos + n >= 0 /\ i.pos + n < i.size
       THEN Val(i.ptr + (i.pos + n))
       ELSE Failed

\* operator==
op_eq(a, b) ==
  IF ~a.ok \/ ~b.ok THEN Failed
  ELSE IF a.ptr = b.ptr THEN Val(a.pos = b.pos) ELSE Failed

\* !x for a bool-returning call x
Not(x) == IF x.ok THEN Val(~x.val) ELSE Failed

\* operator!=
op_ne(a, b) == Not(op_eq(a, b))

\* (mutant) operator< without assert(lhs.ptr_ == rhs.ptr_)
op_lt_unchecked(a, b) ==
  IF ~a.ok \/ ~b.ok THEN Failed ELSE Val(a.pos < b.pos)

\* operator<
op_lt(a, b) ==
  IF ~a.ok \/ ~b.ok THEN Failed
  ELSE IF a.ptr = b.ptr THEN Val(a.pos < b.pos) ELSE Failed

\* operator>
op_gt(a, b) == op_lt(b, a)

\* operator<=
op_le(a, b) == Not(op_lt(b, a))

\* operator>=
op_ge(a, b) == Not(op_lt(a, b))

\* ------------------------------------------------------------ array_ref
\* (mutant) Min that never clamps
Min_first(x, y) == x

\* (mutant) Min clamping a negative count to zero as well
Min_two_sided(x, y) == IF x < 0 THEN 0 ELSE IF y < x THEN y ELSE x

\* Min
Min(x, y) == IF y < x THEN y ELSE x

\* array_ref() = default
array_ref_default == View(Null, 0)

\* array_ref(pointer first, pointer last)
array_ref_ptrs(first, lst) ==
  LET d == first
      s == lst - first
  IN IF (d = Null /\ s = 0) \/ (d # Null /\ s >= 0) THEN View(d, s) ELSE Failed

\* array_ref(iterator first, iterator last)
array_ref_iters(first, lst) ==
  IF ~first.ok \/ ~lst.ok THEN Failed
  ELSE LET d == ptr(first)
           s == op_diff(lst, first)
       IN IF ~s.ok THEN Failed
          ELSE IF (d = Null /\ s.val = 0) \/ (d # Null /\ s.val >= 0)
               THEN View(d, s.val)
               ELSE Failed

\* array_ref(U* p, difference_type n)
array_ref_count(p, n) == View(p, n)

\* array_ref(U (&arr)[N])
array_ref_array(arr) == View(arr.addr, arr.len)

\* array_ref(Rhs& rhs), array_ref(Rhs const& rhs)
array_ref_container(rhs) == View(rhs.data, rhs.size)

\* data()
data(v) == v.data

\* size()
size(v) == v.size

\* empty()
empty(v) == v.size = 0

\* array_ref::operator[]
view_index(v, i) ==
  IF ~v.ok THEN Failed
  ELSE IF i >= 0 /\ i < v.size THEN Val(v.data + i) ELSE Failed

\* (mutant) begin() one element too far
begin_at_one(v) ==
  IF ~v.ok THEN Failed ELSE array_iterator(v.data, v.size, Min(1, v.size))

\* begin()
begin(v) ==
  IF ~v.ok THEN Failed ELSE array_iterator(v.data, v.size, 0)

\* end()
end(v) ==
  IF ~v.ok THEN Failed ELSE array_iterator(v.data, v.size, v.size)

\* take_front(n)
take_front(v, n) ==
  IF ~v.ok THEN Failed
  ELSE LET m == Min(n, size(v))
       IN array_ref_iters(begin(v), op_plus(begin(v), m))

\* take_back(n)
take_back(v, n) ==
  IF ~v.ok THEN Failed
  ELSE LET m == Min(n, size(v))
       IN array_ref_iters(op_minus(end(v), m), end(v))

\* drop_front(n)
drop_front(v, n) ==
  IF ~v.ok THEN Failed
  ELSE LET m == Min(n, size(v))
       IN array_ref_iters(op_plus(begin(v), m), end(v))

\* (mutant) drop_back(n) without the clamp
drop_back_unclamped(v, n) ==
  IF ~v.ok THEN Failed
  ELSE array_ref_iters(begin(v), op_minus(end(v), n))

\* drop_back(n)
drop_back(v, n) ==
  IF ~v.ok THEN Failed
  ELSE LET m == Min(n, size(v))
       IN array_ref_iters(begin(v), op_minus(end(v), m))

\* (mutant) subarray by unclamped positions
subarray_by_positions(v, first, lst) ==
  IF ~v.ok THEN Failed
  ELSE array_ref_iters(op_plus(begin(v), first), op_plus(begin(v), lst))

\* subarray(first, last)
subarray(v, first, lst) == drop_front(take_front(v, lst), first)

\* subarray(first)
subarray_from(v, first) == drop_front(v, first)

\* (mutant) slice composed in subarray's order
slice_take_then_drop(v, first, n) == drop_front(take_front(v, n), first)

\* (mutant) slice by unclamped positions
slice_by_positions(v, first, n) ==
  IF ~v.ok THEN Failed
  ELSE array_ref_iters(op_plus(begin(v), first), op_plus(begin(v), first + n))

\* slice(first, n)
slice(v, first, n) == take_front(drop_front(v, first), n)

\* slice(first)
slice_from(v, first) == drop_front(v, first)

\* The value stored in the element at address a: the elements of the backing
\* array all hold the same value, so ranges of equal length hold equal
\* contents.
Elem(a) == 0

\* (mutant) operator== comparing lengths and elements
view_eq_elementwise(a, b) ==
  Val(/\ a.size = b.size
      /\ \A k \in 0 .. (a.size - 1) : Elem(a.data + k) = Elem(b.data + k))

\* operator==(array_ref lhs, array_ref rhs)
view_eq(a, b) == Val(data(a) = data(b) /\ size(a) = size(b))

\* operator!=(array_ref lhs, array_ref rhs)
view_ne(a, b) == Not(view_eq(a, b))

\* ---------------------------------------------------------- element types
\* The element types of Test.cc: int (written T), Derived and its base Base,
\* each with or without const.
TypeNames == {"T", "Derived", "Base"}

\* An element type: its class and whether it is const-qualified.
Elt(t, c) == [is_const |-> c, type |-> t]

\* (mutant) std::is_convertible< From*, To* >: pointers to single objects
\* convert from derived to base
is_pointer_convertible(From, To) ==
  /\ From.type = To.type \/ (From.type = "Derived" /\ To.type = "Base")
  /\ From.is_const => To.is_const

\* is_array_convertible: std::is_convertible< From (*)[], To (*)[] >, a
\* qualification conversion of a pointer to an array
is_array_convertible(From, To) ==
  /\ From.type = To.type
  /\ From.is_const => To.is_const

\* array_iterator<To*> from an array_iterator<From*>: the copy constructor
\* for the same type, otherwise the converting constructor when enabled
array_iterator_convertible(From, To) ==
  From = To \/ is_array_convertible(From, To)

\* An object exposing data() and size(): elem is its element type, deep says
\* whether data() of a const object returns a pointer to const elements (as
\* std::vector and std::array do; an array_ref does not), is_const whether
\* the object is const, temporary whether it is an rvalue.
Source(deep, elem, c, t) ==
  [deep |-> deep, elem |-> elem, is_const |-> c, temporary |-> t]

\* std::remove_pointer_t< decltype(rhs.data()) > for rhs seen as const (c) or
\* as declared
DataElem(src, c) ==
  Elt(src.elem.type, src.elem.is_const \/ (c /\ src.deep))

\* (mutant) array_ref(Rhs const& rhs) without std::is_const<element_type>
array_ref_rhs_const_ref_any(To, src) ==
  is_array_convertible(DataElem(src, TRUE), To)

\* array_ref(Rhs& rhs): Rhs is deduced with the constness of the argument,
\* and Rhs& binds to an lvalue or to a const rvalue
array_ref_rhs_ref(To, src) ==
  /\ ~src.temporary \/ src.is_const
  /\ is_array_convertible(DataElem(src, src.is_const), To)

\* array_ref(Rhs const& rhs): binds to every argument
array_ref_rhs_const_ref(To, src) ==
  /\ To.is_const
  /\ is_array_convertible(DataElem(src, TRUE), To)

\* array_ref<To> constructible from src by one of the two constructors
array_ref_constructible(To, src) ==
  array_ref_rhs_ref(To, src) \/ array_ref_rhs_const_ref(To, src)

\* array_ref<To> from an array_ref<From> (const or not, temporary or not):
\* the copy constructor for the same type, otherwise array_ref<From> is an
\* object exposing data() and size()
array_ref_convertible(From, To, c, t) ==
  From = To \/ array_ref_constructible(To, Source(FALSE, From, c, t))

\* ------------------------------------------------------------ arguments
\* A fixed-size array U (&arr)[N] inside the backing storage, N >= 1.
IsArray(a, n) ==
  /\ a \in ArrAddr .. (ArrEnd - 1)
  /\ n \in 1 .. ArrLen
  /\ a + n <= ArrEnd

\* An object exposing data() and size(): an empty one may report a null
\* data(), a non-empty one reports storage it owns.
IsContainer(d, n) ==
  \/ d = Null /\ n = 0
  \/ d \in ArrAddr .. ArrEnd /\ n \in 0 .. ArrLen /\ d + n <= ArrEnd

\* Iterators a caller holds next to view v: a default-constructed one, and
\* every position of v and of v without its first element.
IterArgs(v) ==
  {i \in {op_plus(begin(w), k) : w \in {v, drop_front(v, 1)}, k \in 0 .. (ArrLen + 1)}
       \cup {array_iterator_default} : i.ok}

\* ------------------------------------------------------------------ state
Init ==
  /\ view = array_ref_default
  /\ v0 = array_ref_default
  /\ it = array_iterator_default
  /\ made = [ptr |-> Null, size |-> 0]
  /\ last = [op |-> "init"]
  /\ pc = "running"

\* A constructor call: v0 and view become the constructed array_ref, or the
\* program aborts on a failed assert().
Produce(call, res) ==
  /\ pc = "running"
  /\ last' = call
  /\ IF res.ok
     THEN view' = res /\ v0' = res /\ pc' = "running"
     ELSE view' = view /\ v0' = v0 /\ pc' = "aborted"
  /\ UNCHANGED <<it, made>>

\* view = view.f(...) for a const member f returning an array_ref: view is
\* replaced by the result, or the program aborts on a failed assert(); v0 is
\* left alone.
Derive(call, res) ==
  /\ pc = "running"
  /\ last' = call
  /\ IF res.ok
     THEN view' = res /\ pc' = "running"
     ELSE view' = view /\ pc' = "aborted"
  /\ UNCHANGED <<v0, it, made>>

\* A call that only reads the view.
Observe(call, res) ==
  /\ pc = "running"
  /\ last' = call
  /\ pc' = IF res.ok THEN "running" ELSE "aborted"
  /\ UNCHANGED <<view, v0, it, made>>

\* ------------------------------------------------- array_ref construction
Default ==
  Produce([op |-> "default", r |-> array_ref_default], array_ref_default)

PtrPair ==
  \E first \in Pointers, lst \in Pointers :
    LET r == array_ref_ptrs(first, lst)
    IN Produce([first |-> first, lst |-> lst, op |-> "ptr_pair", r |-> r], r)

IterPair ==
  \E first \in IterArgs(view), lst \in IterArgs(view) :
    LET r == array_ref_iters(first, lst)
    IN Produce([first |-> first, lst |-> lst, op |-> "iter_pair", r |-> r], r)

PtrCount ==
  \E p \in Pointers, n \in Counts :
    LET r == array_ref_count(p, n)
    IN Produce([n |-> n, op |-> "ptr_count", p |-> p, r |-> r], r)

FromArray ==
  \E a \in Pointers, n \in Counts :
    /\ IsArray(a, n)
    /\ LET arr == [addr |-> a, len |-> n]
           r == array_ref_array(arr)
       IN Produce([arr |-> arr, op |-> "array", r |-> r], r)

FromContainer ==
  \E d \in Pointers, n \in Counts :
    /\ IsContainer(d, n)
    /\ LET rhs == [data |-> d, size |-> n]
           r == array_ref_container(rhs)
       IN Produce([op |-> "container", r |-> r, rhs |-> rhs], r)

\* --------------------------------------------------- sub-range operations
TakeFront ==
  \E n \in Counts :
    LET r == take_front(view, n)
    IN Derive([n |-> n, op |-> "take_front", r |-> r, v |-> view], r)

TakeBack ==
  \E n \in Counts :
    LET r == take_back(view, n)
    IN Derive([n |-> n, op |-> "take_back", r |-> r, v |-> view], r)

DropFront ==
  \E n \in Counts :
    LET r == drop_front(view, n)
    IN Derive([n |-> n, op |-> "drop_front", r |-> r, v |-> view], r)

DropBack ==
  \E n \in Counts :
    LET r == drop_back(view, n)
    IN Derive([n |-> n, op |-> "drop_back", r |-> r, v |-> view], r)

Subarray ==
  \E first \in Counts, lst \in Counts :
    LET r == subarray(view, first, lst)
    IN Derive([first |-> first, lst |-> lst, op |-> "subarray", r |-> r,
               v |-> view], r)

SubarrayFrom ==
  \E first \in Counts :
    LET r == subarray_from(view, first)
    IN Derive([first |-> first, op |-> "subarray_from", r |-> r, v |-> view], r)

Slice ==
  \E first \in Counts, n \in Counts :
    LET r == slice(view, first, n)
    IN Derive([first |-> first, n |-> n, op |-> "slice", r |-> r, v |-> view], r)

SliceFrom ==
  \E first \in Counts :
    LET r == slice_from(view, first)
    IN Derive([first |-> first, op |-> "slice_from", r |-> r, v |-> view], r)

\* ------------------------------------------------------- array_ref reads
\* v.begin()
Begin ==
  LET r == begin(view)
  IN Observe([op |-> "begin", r |-> r, v |-> view], r)

\* v.end()
End ==
  LET r == end(view)
  IN Observe([op |-> "end", r |-> r, v |-> view], r)

\* v.end() - v.begin()
EndMinusBegin ==
  LET r == op_diff(end(view), begin(view))
  IN Observe([op |-> "end_minus_begin", r |-> r, v |-> view], r)

\* v.begin() == v.end()
BeginEqEnd ==
  LET r == op_eq(begin(view), end(view))
  IN Observe([empty |-> empty(view), op |-> "begin_eq_end", r |-> r,
              v |-> view], r)

\* view == b, view != b for another view b
ViewEq ==
  \E p \in Pointers, n \in Counts :
    LET b == View(p, n)
        r == view_eq(view, b)
    IN Observe([b |-> b, eq |-> r, ne |-> view_ne(view, b), op |-> "view_eq",
                r |-> r, v |-> view], r)

Next ==
  \/ Default
  \/ PtrPair
  \/ IterPair
  \/ PtrCount
  \/ FromArray
  \/ FromContainer
  \/ TakeFront
  \/ TakeBack
  \/ DropFront
  \/ DropBack
  \/ Subarray
  \/ SubarrayFrom
  \/ Slice
  \/ SliceFrom
  \/ Begin
  \/ End
  \/ EndMinusBegin
  \/ BeginEqEnd
  \/ ViewEq

\* A client of array_ref: any sequence of constructions, sub-range
\* operations and reads, up to the first failed assert().
Spec == Init /\ [][Next]_vars

\* ------------------------------------------------------- iterator client
\* A call that constructs the iterator anew (res), or aborts.
Make(call, res) ==
  /\ pc = "running"
  /\ last' = call
  /\ IF res.ok
     THEN it' = res /\ made' = [ptr |-> res.ptr, size |-> res.size]
          /\ pc' = "running"
     ELSE it' = it /\ made' = made /\ pc' = "aborted"
  /\ UNCHANGED <<view, v0>>

\* A call that yields the iterator's next value (res), or aborts.
Move(call, res) ==
  /\ pc = "running"
  /\ last' = call
  /\ IF res.ok
     THEN it' = res /\ pc' = "running"
     ELSE it' = it /\ pc' = "aborted"
  /\ UNCHANGED <<view, v0, made>>

\* A call that only reads the iterator.
Read(call, res) ==
  /\ pc = "running"
  /\ last' = call
  /\ pc' = IF res.ok THEN "running" ELSE "aborted"
  /\ UNCHANGED <<view, v0, it, made>>

\* it = array_iterator()
ItDefault ==
  Make([op |-> "it_default", r |-> array_iterator_default],
       array_iterator_default)

\* it = array_iterator(p, s, k)
ItConstruct ==
  \E p \in Pointers, s \in Counts, k \in Counts :
    LET r == array_iterator(p, s, k)
    IN Make([k |-> k, op |-> "it_construct", p |-> p, r |-> r, s |-> s], r)

\* it = v.begin()
ItBegin ==
  \E p \in Pointers, n \in Counts :
    LET v == View(p, n)
        r == begin(v)
    IN Make([op |-> "it_begin", r |-> r, v |-> v], r)

\* it = v.end()
ItEnd ==
  \E p \in Pointers, n \in Counts :
    LET v == View(p, n)
        r == end(v)
    IN Make([op |-> "it_end", r |-> r, v |-> v], r)

\* ++it
PreInc ==
  LET r == op_pre_inc(it)
  IN Move([a |-> it, n |-> 1, op |-> "pre_inc", r |-> r], r)

\* it++
PostInc ==
  LET r == op_post_inc(it)
  IN Move([a |-> it, n |-> 1, op |-> "post_inc", r |-> r],
          IF r.ok THEN r.self ELSE Failed)

\* --it
PreDec ==
  LET r == op_pre_dec(it)
  IN Move([a |-> it, n |-> 0 - 1, op |-> "pre_dec", r |-> r], r)

\* it--
PostDec ==
  LET r == op_post_dec(it)
  IN Move([a |-> it, n |-> 0 - 1, op |-> "post_dec", r |-> r],
          IF r.ok THEN r.self ELSE Failed)

\* it += n
AddAssign ==
  \E n \in Counts :
    LET r == op_add_assign(it, n)
    IN Move([a |-> it, n |-> n, op |-> "add_assign", r |-> r], r)

\* it = it + n
Plus ==
  \E n \in Counts :
    LET r == op_plus(it, n)
    IN Move([a |-> it, n |-> n, op |-> "plus", r |-> r], r)

\* it = n + it
PlusLeft ==
  \E n \in Counts :
    LET r == op_plus_left(n, it)
    IN Move([a |-> it, n |-> n, op |-> "plus_left", r |-> r], r)

\* it -= n
SubAssign ==
  \E n \in Counts :
    LET r == op_sub_assign(it, n)
    IN Move([a |-> it, n |-> n, op |-> "sub_assign", r |-> r], r)

\* it = it - n
Minus ==
  \E n \in Counts :
    LET r == op_minus(it, n)
    IN Move([a |-> it, n |-> n, op |-> "minus", r |-> r], r)

\* it = array_iterator(it)
Copy ==
  LET r == array_iterator_copy(it)
  IN Move([a |-> it, op |-> "copy", r |-> r], r)

\* it = array_iterator<T const*>(it)
Convert ==
  LET r == array_iterator_convert(it)
  IN Move([a |-> it, op |-> "convert", r |-> r], r)

\* *it
Deref ==
  LET r == op_deref(it)
  IN Read([a |-> it, op |-> "deref", r |-> r], r)

\* it.operator->()
Arrow ==
  LET r == op_arrow(it)
  IN Read([a |-> it, op |-> "arrow", r |-> r], r)

\* it[n]
ItIndex ==
  \E n \in Counts :
    LET r == op_index(it, n)
    IN Read([a |-> it, n |-> n, op |-> "it_index", r |-> r], r)

\* *(it + n)
DerefPlus ==
  \E n \in Counts :
    LET r == op_deref(op_plus(it, n))
    IN Read([a |-> it, n |-> n, op |-> "deref_plus", r |-> r], r)

\* v[i]
ViewIndex ==
  \E p \in Pointers, n \in Counts, i \in Counts :
    LET v == View(p, n)
        r == view_index(v, i)
    IN Read([i |-> i, op |-> "view_index", r |-> r, v |-> v], r)

\* *(v.begin() + i)
DerefBeginPlus ==
  \E p \in Pointers, n \in Counts, i \in Counts :
    LET v == View(p, n)
        r == op_deref(op_plus(begin(v), i))
    IN Read([i |-> i, op |-> "deref_begin_plus", r |-> r, v |-> v], r)

\* v.begin()[i]
BeginIndex ==
  \E p \in Pointers, n \in Counts, i \in Counts :
    LET v == View(p, n)
        r == op_index(begin(v), i)
    IN Read([i |-> i, op |-> "begin_index", r |-> r, v |-> v], r)

\* it == b, it != b, it < b, it > b, it <= b, it >= b, it - b
Compare ==
  \E p \in Pointers, s \in Counts, k \in Counts :
    LET b == array_iterator(p, s, k)
    IN /\ b.ok
       /\ Read([a |-> it, b |-> b,
                diff |-> op_diff(it, b),
                eq |-> op_eq(it, b), ge |-> op_ge(it, b), gt |-> op_gt(it, b),
                le |-> op_le(it, b), lt |-> op_lt(it, b),
                lt_rev |-> op_lt(b, it),
                ne |-> op_ne(it, b), op |-> "compare"],
               op_eq(it, b))

\* (it + n) - it
PlusDiff ==
  \E n \in Counts :
    LET r == op_diff(op_plus(it, n), it)
    IN Read([a |-> it, n |-> n, op |-> "plus_diff", r |-> r], r)

\* (it + n) - n == it
PlusMinus ==
  \E n \in Counts :
    LET r == op_eq(op_minus(op_plus(it, n), n), it)
    IN Read([a |-> it, n |-> n, op |-> "plus_minus", r |-> r], r)

\* n + it == it + n
PlusCommutes ==
  \E n \in Counts :
    LET r == op_eq(op_plus_left(n, it), op_plus(it, n))
    IN Read([a |-> it, n |-> n, op |-> "plus_commutes", r |-> r], r)

\* ++(--t) == it for a copy t of it
IncDec ==
  LET r == op_eq(op_pre_inc(op_pre_dec(array_iterator_copy(it))), it)
  IN Read([a |-> it, op |-> "inc_dec", r |-> r], r)

\* --(++t) == it for a copy t of it
DecInc ==
  LET r == op_eq(op_pre_dec(op_pre_inc(array_iterator_copy(it))), it)
  IN Read([a |-> it, op |-> "dec_inc", r |-> r], r)

NextIter ==
  \/ ItDefault
  \/ ItConstruct
  \/ ItBegin
  \/ ItEnd
  \/ PreInc
  \/ PostInc
  \/ PreDec
  \/ PostDec
  \/ AddAssign
  \/ Plus
  \/ PlusLeft
  \/ SubAssign
  \/ Minus
  \/ Copy
  \/ Convert
  \/ Deref
  \/ Arrow
  \/ ItIndex
  \/ DerefPlus
  \/ ViewIndex
  \/ DerefBeginPlus
  \/ BeginIndex
  \/ Compare
  \/ PlusDiff
  \/ PlusMinus
  \/ PlusCommutes
  \/ IncDec
  \/ DecInc

\* A client of array_iterator: any sequence of constructions, moves, reads
\* and comparisons, up to the first failed assert().
SpecIter == Init /\ [][NextIter]_vars

\* ----------------------------------------------------------- conversions
\* An instantiation the compiler accepts or rejects (r): nothing runs.
Instantiate(call) ==
  /\ pc = "running"
  /\ last' = call
  /\ UNCHANGED <<view, v0, it, made, pc>>

\* array_iterator<To*> j = i, for i an array_iterator<From*>
ConvertIterator ==
  \E ft \in TypeNames, fc \in BOOLEAN, tt \in TypeNames, tc \in BOOLEAN :
    LET from == Elt(ft, fc)
        to == Elt(tt, tc)
    IN Instantiate([from |-> from, op |-> "convert_iterator",
                    r |-> Val(array_iterator_convertible(from, to)),
                    to |-> to])

\* array_ref<To> w = v, for v an array_ref<From>
ConvertView ==
  \E ft \in TypeNames, fc \in BOOLEAN, tt \in TypeNames, tc \in BOOLEAN,
     c \in BOOLEAN, t \in BOOLEAN :
    LET from == Elt(ft, fc)
        to == Elt(tt, tc)
    IN Instantiate([from |-> from, is_const |-> c, op |-> "convert_view",
                    r |-> Val(array_ref_convertible(from, to, c, t)),
                    temporary |-> t, to |-> to])

\* array_ref<To> w = rhs, for rhs an object exposing data() and size()
ConstructFrom ==
  \E deep \in BOOLEAN, et \in TypeNames, ec \in BOOLEAN, c \in BOOLEAN,
     t \in BOOLEAN, tt \in TypeNames, tc \in BOOLEAN :
    LET src == Source(deep, Elt(et, ec), c, t)
        to == Elt(tt, tc)
    IN Instantiate([op |-> "construct_from",
                    r |-> Val(array_ref_constructible(to, src)),
                    source |-> src, to |-> to])

NextTypes ==
  \/ ConvertIterator
  \/ ConvertView
  \/ ConstructFrom

\* The instantiations of the converting constructors over the element types.
SpecTypes == Init /\ [][NextTypes]_vars

\* ================================================================ claims
\* A view as the data model admits it: size >= 0, and size = 0 when data is
\* null.
ValidView(v) == v.size >= 0 /\ (v.data = Null => v.size = 0)

\* min(x, y), stated independently of the code's Min
Least(x, y) == IF x <= y THEN x ELSE y

SubRangeOps == {"take_front", "take_back", "drop_front", "drop_back"}

\* C1: for a view (d, s) with s >= 0 and a count n >= 0, with m = min(n, s):
\* take_front(n) = (d, m), take_back(n) = (d + s - m, m),
\* drop_front(n) = (d + m, s - m), drop_back(n) = (d, s - m); no assertion
\* fails, and n > s gives the result of n = s.
C1_Clamp ==
  (last.op \in SubRangeOps /\ ValidView(last.v) /\ last.n >= 0) =>
    LET d == last.v.data
        s == last.v.size
        m == Least(last.n, s)
    IN /\ last.op = "take_front" => last.r = View(d, m)
       /\ last.op = "take_back" => last.r = View(d + s - m, m)
       /\ last.op = "drop_front" => last.r = View(d + m, s - m)
       /\ last.op = "drop_back" => last.r = View(d, s - m)
       /\ pc = "running"
       /\ (last.n > s /\ last.op = "take_front") =>
            last.r = take_front(last.v, s)
       /\ (last.n > s /\ last.op = "take_back") =>
            last.r = take_back(last.v, s)
       /\ (last.n > s /\ last.op = "drop_front") =>
            last.r = drop_front(last.v, s)
       /\ (last.n > s /\ last.op = "drop_back") =>
            last.r = drop_back(last.v, s)

\* C1 witness: take_back of more elements than a non-empty view holds.
C1_Witness ==
  /\ last.op = "take_back"
  /\ ValidView(last.v)
  /\ last.v.size > 0
  /\ last.n > last.v.size
  /\ last.r.ok
  /\ last.r.size = last.v.size

\* C2 as stated: for all integers first, last: subarray(first, last) with
\* last > s equals subarray(first, s), and whenever first > min(last, s) the
\* result is a zero-size view and no assertion fails.
C2_Original ==
  (last.op = "subarray" /\ ValidView(last.v)) =>
    LET s == last.v.size
    IN /\ last.lst > s => last.r = subarray(last.v, last.first, s)
       /\ last.first > Least(last.lst, s) => (last.r.ok /\ last.r.size = 0)

\* C2 amended: the same, the zero-size result only for last >= 0 (a negative
\* last fails the assertion of begin() + last).
C2_ClampedSubarray ==
  (last.op = "subarray" /\ ValidView(last.v)) =>
    LET s == last.v.size
    IN /\ last.lst > s => last.r = subarray(last.v, last.first, s)
       /\ (last.lst >= 0 /\ last.first > Least(last.lst, s)) =>
            (last.r.ok /\ last.r.size = 0 /\ pc = "running")

\* C2 witness: last beyond the size of a non-empty view, first beyond it too.
C2_Witness ==
  /\ last.op = "subarray"
  /\ ValidView(last.v)
  /\ last.v.size > 0
  /\ last.lst > last.v.size
  /\ last.first > last.v.size
  /\ last.r.ok
  /\ last.r.size = 0

\* C3: for first >= 0, n >= 0, first + n <= s: slice(first, n) and
\* subarray(first, first + n) return the same view (data + first, n).
C3_SliceIsSubarray ==
  (/\ last.op = "slice"
   /\ ValidView(last.v)
   /\ last.first >= 0
   /\ last.n >= 0
   /\ last.first + last.n <= last.v.size) =>
    /\ last.r = View(last.v.data + last.first, last.n)
    /\ subarray(last.v, last.first, last.first + last.n)
         = View(last.v.data + last.first, last.n)

\* C3 witness: a proper inner slice.
C3_Witness ==
  /\ last.op = "slice"
  /\ ValidView(last.v)
  /\ last.first > 0
  /\ last.n > 0
  /\ last.first + last.n < last.v.size
  /\ last.r.ok

\* C4 as stated: some view of size s (the current one, or any other over the
\* storage) and some first >= 0, n >= 0 with first + n > s make
\* slice(first, n) and subarray(first, first + n) differ.
C4_Original ==
  \E d \in Pointers \cup {view.data}, s \in (0 .. (ArrLen + 1)) \cup {view.size},
     first \in 0 .. (ArrLen + 1), n \in 0 .. (ArrLen + 1) :
    /\ ValidView(View(d, s))
    /\ first + n > s
    /\ slice(View(d, s), first, n) # subarray(View(d, s), first, first + n)

\* C4 amended: for first >= 0, n >= 0 with first + n > s the two calls still
\* return the same view: (data + min(first, s), min(n, s - min(first, s))).
C4_NoDivergence ==
  (/\ last.op = "slice"
   /\ ValidView(last.v)
   /\ last.first >= 0
   /\ last.n >= 0
   /\ last.first + last.n > last.v.size) =>
    LET s == last.v.size
        f == Least(last.first, s)
        expected == View(last.v.data + f, Least(last.n, s - f))
    IN /\ last.r = expected
       /\ subarray(last.v, last.first, last.first + last.n) = expected

\* C4 witness: a slice reaching past the end of the view from inside it.
C4_Witness ==
  /\ last.op = "slice"
  /\ ValidView(last.v)
  /\ last.first > 0
  /\ last.first < last.v.size
  /\ last.first + last.n > last.v.size
  /\ last.r.ok
  /\ last.r.size = last.v.size - last.first

ViewMakers ==
  {"default", "ptr_pair", "iter_pair", "ptr_count", "array", "container",
   "take_front", "take_back", "drop_front", "drop_back", "subarray",
   "subarray_from", "slice", "slice_from"}

\* C5: every view a constructor or a sub-range operation produces without a
\* failed assertion has size >= 0, and size = 0 when its data is null.
C5_ProducedViewsValid ==
  (last.op \in ViewMakers /\ last.r.ok) => ValidView(last.r)

\* C9: for a validly constructed view (d, s): begin() = (d, length s,
\* position 0), end() = (d, length s, position s), end() - begin() = s, and
\* begin() == end() iff empty().
C9_BeginEnd ==
  (last.op \in {"begin", "end", "end_minus_begin", "begin_eq_end"}
     /\ ValidView(last.v)) =>
    LET d == last.v.data
        s == last.v.size
    IN /\ pc = "running"
       /\ last.op = "begin" => last.r = Iter(d, 0, s)
       /\ last.op = "end" => last.r = Iter(d, s, s)
       /\ last.op = "end_minus_begin" => last.r = Val(s)
       /\ last.op = "begin_eq_end" =>
            /\ last.r = Val(last.empty)
            /\ last.empty <=> (s = 0)

\* C9 witness: end() - begin() taken on the default-constructed view.
C9_Witness ==
  /\ last.op = "end_minus_begin"
  /\ last.v = array_ref_default
  /\ last.r = Val(0)

MoveOps ==
  {"pre_inc", "post_inc", "pre_dec", "post_dec", "add_assign", "plus",
   "plus_left", "sub_assign", "minus"}

\* C6: after any sequence of ++, --, +=, -=, + n, - n, copy and conversion
\* without a failed assertion, 0 <= position <= length, and base and length
\* are the ones the iterator was constructed with.
C6_OnlyPositionMoves ==
  pc = "running" =>
    /\ 0 <= it.pos
    /\ it.pos <= it.size
    /\ it.ptr = made.ptr
    /\ it.size = made.size

\* C6 witness: a copy of an iterator that was moved off its starting
\* position into the middle of a range.
C6_Witness ==
  /\ pc = "running"
  /\ last.op = "copy"
  /\ it.pos > 0
  /\ it.pos < it.size

\* The position p + n lies in [0, L].
InRange(p, n, L) == 0 <= p + n /\ p + n <= L

\* C7: with position p and length L an assertion fails exactly when:
\* * and -> with p >= L or a null base; ++ with p >= L; -- with p <= 0;
\* += n and + n with p + n outside [0, L]; -= n and - n with p - n outside
\* [0, L].  Otherwise the position moves by exactly +1, -1, +n, -n.
C7_FailsExactlyWhen ==
  LET a == last.a
      n == last.n
  IN /\ last.op \in {"deref", "arrow"} =>
          (~last.r.ok <=> (a.pos >= a.size \/ a.ptr = Null))
     /\ last.op \in {"pre_inc", "post_inc"} =>
          /\ ~last.r.ok <=> a.pos >= a.size
          /\ pc = "running" => it.pos = a.pos + 1
     /\ last.op \in {"pre_dec", "post_dec"} =>
          /\ ~last.r.ok <=> a.pos <= 0
          /\ pc = "running" => it.pos = a.pos - 1
     /\ last.op \in {"add_assign", "plus"} =>
          /\ ~last.r.ok <=> ~InRange(a.pos, n, a.size)
          /\ pc = "running" => it.pos = a.pos + n
     /\ last.op \in {"sub_assign", "minus"} =>
          /\ ~last.r.ok <=> ~InRange(a.pos, 0 - n, a.size)
          /\ pc = "running" => it.pos = a.pos - n
     /\ last.op \in MoveOps \cup {"deref", "arrow"} =>
          (pc = "aborted" <=> ~last.r.ok)

\* C7 witness: it - n with a negative n that would pass the end.
C7_Witness ==
  /\ last.op = "minus"
  /\ last.n < 0
  /\ last.a.pos - last.n > last.a.size
  /\ ~last.r.ok
  /\ pc = "aborted"

\* C8: with the same base, ==, !=, <, <=, >, >= return the comparison of the
\* positions (a <= b iff not b < a, a != b iff not a == b) and a - b returns
\* a.position - b.position; with different bases all seven fail an
\* assertion.
C8_CompareByPosition ==
  last.op = "compare" =>
    LET a == last.a
        b == last.b
    IN /\ a.ptr = b.ptr =>
            /\ last.eq = Val(a.pos = b.pos)
            /\ last.ne = Val(a.pos # b.pos)
            /\ last.lt = Val(a.pos < b.pos)
            /\ last.le = Val(a.pos <= b.pos)
            /\ last.gt = Val(a.pos > b.pos)
            /\ last.ge = Val(a.pos >= b.pos)
            /\ last.diff = Val(a.pos - b.pos)
            /\ last.le.val <=> ~last.lt_rev.val
            /\ last.ne.val <=> ~last.eq.val
            /\ pc = "running"
       /\ a.ptr # b.ptr =>
            /\ ~last.eq.ok /\ ~last.ne.ok /\ ~last.lt.ok /\ ~last.le.ok
            /\ ~last.gt.ok /\ ~last.ge.ok /\ ~last.diff.ok
            /\ pc = "aborted"

\* C8 witness: two iterators with different non-null bases are compared.
C8_Witness ==
  /\ last.op = "compare"
  /\ last.a.ptr # Null
  /\ last.b.ptr # Null
  /\ last.a.ptr # last.b.ptr
  /\ ~last.lt.ok

\* C10: for 0 <= i < size(), v[i], *(v.begin() + i) and v.begin()[i] denote
\* the element at data + i; it[n] denotes the element *(it + n) does and
\* fails an assertion exactly when position + n is outside [0, length).
C10_IndexingAgrees ==
  /\ (/\ last.op \in {"view_index", "deref_begin_plus", "begin_index"}
      /\ ValidView(last.v)
      /\ 0 <= last.i
      /\ last.i < last.v.size) =>
       /\ last.r = Val(last.v.data + last.i)
       /\ view_index(last.v, last.i) = op_index(begin(last.v), last.i)
       /\ view_index(last.v, last.i) = op_deref(op_plus(begin(last.v), last.i))
  /\ last.op \in {"it_index", "deref_plus"} =>
       /\ last.r.ok <=> (0 <= last.a.pos + last.n /\ last.a.pos + last.n < last.a.size)
       /\ last.r.ok => last.r = Val(last.a.ptr + last.a.pos + last.n)
       /\ op_index(last.a, last.n) = op_deref(op_plus(last.a, last.n))

\* C10 witness: it[n] with a negative n reaching an element before it.
C10_Witness ==
  /\ last.op = "it_index"
  /\ last.n < 0
  /\ last.a.pos > 0
  /\ last.r = Val(last.a.ptr + last.a.pos + last.n)

\* The eight calls that return a sub-range of a view.
SubRangeCalls ==
  {"take_front", "take_back", "drop_front", "drop_back", "subarray",
   "subarray_from", "slice", "slice_from"}

\* C11: a == b is TRUE iff a and b have the same data address and the same
\* size, whatever the elements hold; a != b is its negation; a view returned
\* by a sub-range operation on v is equal to v iff its size is v.size().
C11_EqualityIsIdentity ==
  /\ last.op = "view_eq" =>
       /\ last.eq = Val(last.v.data = last.b.data /\ last.v.size = last.b.size)
       /\ last.ne = Val(~(/\ last.v.data = last.b.data
                           /\ last.v.size = last.b.size))
       /\ pc = "running"
  /\ (last.op \in SubRangeCalls /\ last.r.ok) =>
       /\ view_eq(last.r, last.v) = Val(last.r.size = last.v.size)
       /\ view_ne(last.r, last.v) = Val(last.r.size # last.v.size)

\* C11 witness: two non-empty views of the same size and the same contents
\* at different addresses compare unequal.
C11_Witness ==
  /\ last.op = "view_eq"
  /\ last.v.size > 0
  /\ last.v.size = last.b.size
  /\ last.v.data # last.b.data
  /\ ValidView(last.v)
  /\ ValidView(last.b)
  /\ \A k \in 0 .. (last.v.size - 1) :
       Elem(last.v.data + k) = Elem(last.b.data + k)
  /\ last.eq = Val(FALSE)
  /\ last.ne = Val(TRUE)

\* C12: for an iterator it at position p of length L and n with p + n in
\* [0, L]: (it + n) - it = n, (it + n) - n == it, n + it == it + n;
\* ++(--it) == it when p > 0 and --(++it) == it when p < L; it++ and it--
\* return an iterator equal to it before the step, ++it and --it the one
\* after it.
C12_RoundTrips ==
  LET a == last.a
  IN /\ (last.op \in {"plus_diff", "plus_minus", "plus_commutes"}
           /\ InRange(a.pos, last.n, a.size)) =>
          /\ last.op = "plus_diff" => last.r = Val(last.n)
          /\ last.op = "plus_minus" => last.r = Val(TRUE)
          /\ last.op = "plus_commutes" => last.r = Val(TRUE)
          /\ pc = "running"
     /\ (last.op = "inc_dec" /\ a.pos > 0) =>
          (last.r = Val(TRUE) /\ pc = "running")
     /\ (last.op = "dec_inc" /\ a.pos < a.size) =>
          (last.r = Val(TRUE) /\ pc = "running")
     /\ (last.op \in {"post_inc", "post_dec"} /\ last.r.ok) =>
          /\ op_eq(last.r.ret, a) = Val(TRUE)
          /\ last.r.ret.pos = a.pos
          /\ it = last.r.self
          /\ it.pos = a.pos + last.n
     /\ (last.op \in {"pre_inc", "pre_dec"} /\ last.r.ok) =>
          /\ op_eq(last.r, op_plus(a, last.n)) = Val(TRUE)
          /\ last.r.pos = a.pos + last.n
          /\ it = last.r

\* C12 witness: (it + n) - it with a negative n from inside a range.
C12_Witness ==
  /\ last.op = "plus_diff"
  /\ last.n < 0
  /\ last.a.pos + last.n >= 0
  /\ last.r = Val(last.n)

\* C13 as stated: array_iterator(pointer, length, position) passes its
\* assertions exactly when length >= 0, 0 <= position <= length and the
\* pointer is null iff length = 0.
C13_Original ==
  last.op = "it_construct" =>
    (last.r.ok <=> /\ last.s >= 0
                   /\ 0 <= last.k
                   /\ last.k <= last.s
                   /\ (last.p = Null <=> last.s = 0))

\* C13 amended: it passes exactly when length >= 0, 0 <= position <= length
\* and length = 0 if the pointer is null (a non-null pointer with length 0 is
\* accepted); otherwise an assertion fails.
C13_ConstructorAccepts ==
  last.op = "it_construct" =>
    /\ last.r.ok <=> /\ last.s >= 0
                     /\ 0 <= last.k
                     /\ last.k <= last.s
                     /\ (last.p = Null => last.s = 0)
    /\ last.r.ok => (last.r = Iter(last.p, last.k, last.s) /\ it = last.r)
    /\ pc = "aborted" <=> ~last.r.ok

\* C13 witness: an iterator over an empty range at a non-null address.
C13_Witness ==
  /\ last.op = "it_construct"
  /\ last.p # Null
  /\ last.s = 0
  /\ last.k = 0
  /\ last.r.ok
  /\ pc = "running"

\* C14: over the element types T, const T, Derived, const Derived, Base,
\* const Base, an iterator or a view over From converts to one over To
\* exactly when To is From or From with const added: never from const to
\* mutable, never between Derived and Base, never between unrelated types.
C14_ConversionRule ==
  last.op \in {"convert_iterator", "convert_view"} =>
    LET From == last.from
        To == last.to
    IN /\ last.r.val <=> (From = To \/ (From.type = To.type /\ ~From.is_const
                                         /\ To.is_const))
       /\ (From.is_const /\ ~To.is_const) => ~last.r.val
       /\ From.type # To.type => ~last.r.val
       /\ array_iterator_convertible(From, To)
            <=> array_ref_convertible(From, To, FALSE, FALSE)

\* C14 witness: a view over Derived is not accepted as a view over const
\* Base.
C14_Witness ==
  /\ last.op = "convert_view"
  /\ last.from = Elt("Derived", FALSE)
  /\ last.to = Elt("Base", TRUE)
  /\ last.r = Val(FALSE)

\* C15 as stated: from an object exposing data() and size() over the view's
\* element type, a view of const elements is constructible whether the
\* object is mutable, const or a temporary; a view of non-const elements is
\* constructible from a mutable lvalue and from no const object and no
\* temporary.
C15_Original ==
  (last.op = "construct_from" /\ last.source.elem.type = last.to.type) =>
    LET src == last.source
    IN /\ last.to.is_const => last.r.val
       /\ (~last.to.is_const /\ ~src.elem.is_const /\ ~src.is_const
             /\ ~src.temporary) => last.r.val
       /\ (~last.to.is_const /\ last.r.val) =>
            (~src.is_const /\ ~src.temporary)

\* C15 amended: a view of const elements is constructible from all of them;
\* a view of non-const elements exactly when the source is an lvalue or
\* const and its data(), called with the source's constness, returns a
\* pointer to non-const elements.  For a source whose const data() returns a
\* pointer to const that is: from a mutable lvalue only.
C15_ConstAsymmetry ==
  (last.op = "construct_from" /\ last.source.elem.type = last.to.type) =>
    LET src == last.source
    IN /\ last.to.is_const => last.r.val
       /\ ~last.to.is_const =>
            (last.r.val <=> /\ ~src.temporary \/ src.is_const
                            /\ ~src.elem.is_const
                            /\ ~(src.is_const /\ src.deep))
       /\ (~last.to.is_const /\ src.deep) =>
            (last.r.val <=> (~src.elem.is_const /\ ~src.is_const
                               /\ ~src.temporary))

\* C15 witness: a view of non-const elements from a const lvalue whose
\* data() returns a pointer to non-const elements.
C15_Witness ==
  /\ last.op = "construct_from"
  /\ last.source = Source(FALSE, Elt("T", FALSE), TRUE, FALSE)
  /\ last.to = Elt("T", FALSE)
  /\ last.r = Val(TRUE)

\* The range of view v lies inside the range of view o.
Within(v, o) ==
  /\ o.data <= v.data
  /\ v.size >= 0
  /\ v.data + v.size <= o.data + o.size

\* The last call was a sub-range operation and none of its arguments was
\* negative.
NonNegativeCall ==
  \/ last.op \in SubRangeOps /\ last.n >= 0
  \/ last.op = "subarray" /\ last.first >= 0 /\ last.lst >= 0
  \/ last.op = "slice" /\ last.first >= 0 /\ last.n >= 0
  \/ last.op \in {"subarray_from", "slice_from"} /\ last.first >= 0

\* C16: from a view v0 = (d0, s0) with s0 >= 0 (and d0 non-null unless
\* s0 = 0), after any sequence of take_front, take_back, drop_front,
\* drop_back, subarray and slice calls with non-negative arguments no
\* assertion has failed and the view (d, s) reached has d0 <= d, s >= 0 and
\* d + s <= d0 + s0; no call changes v0.
C16_StaysInside ==
  /\ [](ValidView(v0) =>
          /\ pc = "running" => (Within(view, v0) /\ ValidView(view))
          /\ NonNegativeCall =>
               /\ pc = "running"
               /\ Within(last.r, last.v)
               /\ view = last.r)
  /\ [][last'.op \in SubRangeCalls => v0' = v0]_vars

\* C16 witness: after two or more calls the view is strictly inside v0 at
\* both ends.
C16_Witness ==
  /\ pc = "running"
  /\ last.op = "drop_back"
  /\ last.n > 0
  /\ last.v # v0
  /\ ValidView(v0)
  /\ view.data > v0.data
  /\ view.size > 0
  /\ view.data + view.size < v0.data + v0.size

\* C17: a negative count is not clamped to zero.  For every view and every
\* n < 0, take_front(n), take_back(n), drop_front(n) and drop_back(n) fail an
\* assertion and return no view, as do slice(first, n) with n < 0 and
\* subarray(first, last) with first < 0 or last < 0; on a view the data model
\* admits the failing assertion is that of the iterator offset begin() + n or
\* end() - n.
C17_NegativeCountFails ==
  /\ (\/ last.op \in SubRangeOps /\ last.n < 0
      \/ last.op = "slice" /\ last.n < 0
      \/ last.op = "subarray" /\ (last.first < 0 \/ last.lst < 0)) =>
       /\ ~last.r.ok
       /\ pc = "aborted"
       /\ view = last.v
  /\ (last.op \in SubRangeOps /\ last.n < 0 /\ ValidView(last.v)) =>
       /\ Min(last.n, last.v.size) = last.n
       /\ begin(last.v).ok
       /\ end(last.v).ok
       /\ last.op \in {"take_front", "drop_front"} =>
            ~op_plus(begin(last.v), last.n).ok
       /\ last.op \in {"take_back", "drop_back"} =>
            ~op_minus(end(last.v), last.n).ok

\* C17 witness: take_back of a negative count on a non-empty view aborts.
C17_Witness ==
  /\ last.op = "take_back"
  /\ last.n < 0
  /\ ValidView(last.v)
  /\ last.v.size > 0
  /\ ~last.r.ok
  /\ pc = "aborted"

====
